---- MODULE Spec2Model ----
(***************************************************************************)
(* The multi-agent core of src/app.py: Message and Task records, BaseAgent *)
(* with its four variants, and AgentRegistry.                              *)
(*                                                                         *)
(* agents maps an id string to the agent object registered under it; an   *)
(* id string "<type>_<uuid8>" is the pair <<type, uuid8>>.  tasks is the   *)
(* heap of Task objects: an index into it is a reference to a Task, so     *)
(* that task_history and task_queue hold the objects themselves.           *)
(*                                                                         *)
(* execute_task is a coroutine: running holds the activation that has      *)
(* executed line 110 and stands at the await of line 113.  None of the     *)
(* four handlers awaits anything, so under asyncio an activation that has  *)
(* started runs to its return before any other operation starts: Next      *)
(* lets a new operation start only when running is empty.                  *)
(***************************************************************************)
EXTENDS Naturals, Sequences, FiniteSets, TLC

VARIABLES
    agents,       \* AgentRegistry.agents: id -> agent object
    tasks,        \* every Task object constructed so far
    task_queue,   \* AgentRegistry.task_queue: references into tasks
    known_at_dispatch, \* history: for each task_queue entry, whether line 276 found the agent
    running,      \* activations of execute_task standing at line 113
    msg_count,    \* Message objects constructed so far
    last,         \* the operation that just returned (or entered), and what it returned
    report        \* the status dicts the operation just performed returned, if any

vars == <<agents, tasks, task_queue, known_at_dispatch, running, msg_count, last, report>>

---------------------------------------------------------------------------
\* Bounds of the model
MaxTasks == 1       \* Task objects constructed
MaxMsgs == 3        \* Message objects constructed
MaxCalls == 2       \* execute_task calls that reach an agent (len of histories)
MaxGather == 2      \* execute_task coroutines scheduled together
MaxPlans == 2       \* Task objects given to an executor's registry

\* uuid4()[:8] values the model draws from (line 247)
Suffixes == {"0a1b2c3d"}

\* AgentType values (lines 26-31)
AgentTypes == {"researcher", "analyzer", "planner", "executor"}

\* agent_type arguments given to create_agent: valid ones and one that is not
CreateArgs == {"researcher", "executor", "wizard"}

\* Message.priority values (line 52 default 1)
Priorities == {1, 2}

\* the default agent_id / receiver_id of lines 71 and 49: the empty string
EmptyId == <<"", "">>

\* Python's None as a task result or an outcome's result
NoneValue == [action |-> "", status |-> "None", execution_count |-> 0]

\* no message
NoMessage == [message_id |-> 0, receiver_id |-> EmptyId, priority |-> 0]

---------------------------------------------------------------------------
\* Message (lines 43-52): message_type, sender_id, content and timestamp are
\* read by no operation but logging and are left out
Message(id, receiver, prio) ==
    [message_id |-> id, receiver_id |-> receiver, priority |-> prio]

\* Task (lines 67-76)
Task(agent_id, action, parameters) ==
    [agent_id |-> agent_id, action |-> action, parameters |-> parameters,
     status |-> "pending", result |-> NoneValue]

\* BaseAgent.__init__ (lines 82-89), ExecutionAgent.__init__ (line 213)
BaseAgent_init(agent_id, agent_type) ==
    [agent_id |-> agent_id, agent_type |-> agent_type,
     message_queue |-> <<>>, knowledge_base |-> {}, task_history |-> <<>>,
     is_active |-> TRUE, execution_count |-> 0]

\* a receive_message that queues by priority, higher priorities first
receive_message_by_priority(self, message) ==
    IF message.receiver_id = self.agent_id
    THEN LET ahead(m) == m.priority >= message.priority
             behind(m) == m.priority < message.priority
         IN  [self EXCEPT !.message_queue =
                 SelectSeq(@, ahead) \o <<message>> \o SelectSeq(@, behind)]
    ELSE self

\* receive_message without the test of line 93
receive_message_unchecked(self, message) ==
    [self EXCEPT !.message_queue = Append(@, message)]

\* BaseAgent.receive_message (lines 91-95)
receive_message(self, message) ==
    IF message.receiver_id = self.agent_id
    THEN [self EXCEPT !.message_queue = Append(@, message)]
    ELSE self

\* a shutdown that drops the messages still queued
shutdown_drains_queue(self) == [self EXCEPT !.is_active = FALSE, !.message_queue = <<>>]

\* BaseAgent.shutdown (lines 139-142)
shutdown(self) == [self EXCEPT !.is_active = FALSE]

\* a status dict with the two counts exchanged
get_status_swapped(self) ==
    [agent_id |-> self.agent_id, agent_type |-> self.agent_type,
     is_active |-> self.is_active,
     message_queue_size |-> Len(self.task_history),
     task_history_count |-> Len(self.message_queue),
     knowledge_base_size |-> Cardinality(self.knowledge_base)]

\* BaseAgent.get_status (lines 128-137)
get_status(self) ==
    [agent_id |-> self.agent_id, agent_type |-> self.agent_type,
     is_active |-> self.is_active,
     message_queue_size |-> Len(self.message_queue),
     task_history_count |-> Len(self.task_history),
     knowledge_base_size |-> Cardinality(self.knowledge_base)]

---------------------------------------------------------------------------
\* What a handler does: it returns a dict, or raises; self is the agent after it
Returns(self, value) == [raised |-> FALSE, value |-> value, self |-> self]
Raises(self) == [raised |-> TRUE, value |-> NoneValue, self |-> self]

\* the fall-through of every handler (lines 163, 184, 205, 228)
UnknownAction(action) ==
    [action |-> action, status |-> "unknown_action", execution_count |-> 0]

\* parameters.get(...) (lines 155, 175, 196, 218) raises AttributeError on a
\* value that is no dict
HasGet(parameters) == parameters = "dict"

\* a handler that raises on an action it does not know
ResearchAgent_rejects_unknown(self, action, parameters) ==
    IF action = "gather_data" /\ HasGet(parameters)
    THEN Returns(self, [action |-> "gather_data", status |-> "", execution_count |-> 0])
    ELSE Raises(self)

\* ResearchAgent._perform_action (lines 152-163)
ResearchAgent_perform_action(self, action, parameters) ==
    IF action = "gather_data"
    THEN IF HasGet(parameters)
         THEN Returns(self, [action |-> "gather_data", status |-> "", execution_count |-> 0])
         ELSE Raises(self)
    ELSE Returns(self, UnknownAction(action))

\* AnalysisAgent._perform_action (lines 172-184)
AnalysisAgent_perform_action(self, action, parameters) ==
    IF action = "analyze_data"
    THEN IF HasGet(parameters)
         THEN Returns(self, [action |-> "analyze_data", status |-> "", execution_count |-> 0])
         ELSE Raises(self)
    ELSE Returns(self, UnknownAction(action))

\* PlanningAgent._perform_action (lines 193-205)
PlanningAgent_perform_action(self, action, parameters) ==
    IF action = "create_strategy"
    THEN IF HasGet(parameters)
         THEN Returns(self, [action |-> "create_strategy", status |-> "", execution_count |-> 0])
         ELSE Raises(self)
    ELSE Returns(self, UnknownAction(action))

\* an executor that counts every action it is given, known or not
ExecutionAgent_counts_every_action(self, action, parameters) ==
    IF action = "implement_plan"
    THEN IF HasGet(parameters)
         THEN Returns([self EXCEPT !.execution_count = @ + 1],
                      [action |-> "implement_plan", status |-> "completed",
                       execution_count |-> self.execution_count + 1])
         ELSE Raises(self)
    ELSE Returns([self EXCEPT !.execution_count = @ + 1], UnknownAction(action))

\* ExecutionAgent._perform_action (lines 215-228): parameters.get comes first,
\* so a raise leaves execution_count alone
ExecutionAgent_perform_action(self, action, parameters) ==
    IF action = "implement_plan"
    THEN IF HasGet(parameters)
         THEN Returns([self EXCEPT !.execution_count = @ + 1],
                      [action |-> "implement_plan", status |-> "completed",
                       execution_count |-> self.execution_count + 1])
         ELSE Raises(self)
    ELSE Returns(self, UnknownAction(action))

\* the action names the handlers test for (lines 154, 174, 195, 217)
Vocabulary(agent_type) ==
    CASE agent_type = "researcher" -> {"gather_data"}
      [] agent_type = "analyzer" -> {"analyze_data"}
      [] agent_type = "planner" -> {"create_strategy"}
      [] agent_type = "executor" -> {"implement_plan"}

\* the virtual call self._perform_action(...) of line 113
perform_action(self, action, parameters) ==
    CASE self.agent_type = "researcher" -> ResearchAgent_perform_action(self, action, parameters)
      [] self.agent_type = "analyzer" -> AnalysisAgent_perform_action(self, action, parameters)
      [] self.agent_type = "planner" -> PlanningAgent_perform_action(self, action, parameters)
      [] self.agent_type = "executor" -> ExecutionAgent_perform_action(self, action, parameters)

\* BaseAgent.execute_task, line 110: up to the await
execute_task_enter(task) == [task EXCEPT !.status = "running"]

\* execute_task with the append of line 116 moved after the try block, so
\* that a failed task is recorded too
execute_task_resume_records_failure(self, task, t, h) ==
    IF ~h.raised
    THEN [self |-> [h.self EXCEPT !.task_history = Append(@, t)],
          task |-> [task EXCEPT !.status = "completed", !.result = h.value],
          status |-> "success", error |-> "", result |-> h.value]
    ELSE [self |-> [h.self EXCEPT !.task_history = Append(@, t)],
          task |-> [task EXCEPT !.status = "failed"],
          status |-> "failed", error |-> "AttributeError", result |-> NoneValue]

\* execute_task without the append of line 116
execute_task_resume_no_history(self, task, t, h) ==
    IF ~h.raised
    THEN [self |-> h.self,
          task |-> [task EXCEPT !.status = "completed", !.result = h.value],
          status |-> "success", error |-> "", result |-> h.value]
    ELSE [self |-> h.self,
          task |-> [task EXCEPT !.status = "failed"],
          status |-> "failed", error |-> "AttributeError", result |-> NoneValue]

\* execute_task whose except branch returns the failed outcome without
\* the assignment of line 119
execute_task_resume_leaves_running(self, task, t, h) ==
    IF ~h.raised
    THEN [self |-> [h.self EXCEPT !.task_history = Append(@, t)],
          task |-> [task EXCEPT !.status = "completed", !.result = h.value],
          status |-> "success", error |-> "", result |-> h.value]
    ELSE [self |-> h.self,
          task |-> task,
          status |-> "failed", error |-> "AttributeError", result |-> NoneValue]

\* BaseAgent.execute_task, lines 113-121: from the handler's outcome h to the
\* return; t is the reference to task
execute_task_resume(self, task, t, h) ==
    IF ~h.raised
    THEN [self |-> [h.self EXCEPT !.task_history = Append(@, t)],
          task |-> [task EXCEPT !.status = "completed", !.result = h.value],
          status |-> "success", error |-> "", result |-> h.value]
    ELSE [self |-> h.self,
          task |-> [task EXCEPT !.status = "failed"],
          status |-> "failed", error |-> "AttributeError", result |-> NoneValue]

---------------------------------------------------------------------------
\* AgentRegistry.register_agent (lines 240-243): self.agents[agent.agent_id] = agent
register_agent(ags, agent) == (agent.agent_id :> agent) @@ ags

\* a type test that lets every type through
valid_agent_type_any(agent_type) == TRUE

\* AgentRegistry.create_agent, lines 249-258: the type test
valid_agent_type(agent_type) == agent_type \in AgentTypes

\* AgentRegistry.execute_task / send_message, lines 276 and 265: the lookup
registered(ags, id) == id \in DOMAIN ags

\* send_message without the return of line 267: an unknown receiver is
\* reported as delivered
send_message_reports_sent(ags, message) ==
    IF ~registered(ags, message.receiver_id)
    THEN [ret |-> "True", agents |-> ags]
    ELSE [ret |-> "True",
          agents |-> [ags EXCEPT ![message.receiver_id] = receive_message(@, message)]]

\* AgentRegistry.send_message (lines 263-272): what it returns and the agents
\* after it
send_message(ags, message) ==
    IF ~registered(ags, message.receiver_id)
    THEN [ret |-> "False", agents |-> ags]
    ELSE [ret |-> "True",
          agents |-> [ags EXCEPT ![message.receiver_id] = receive_message(@, message)]]

\* execute_task logging the task before it looks the agent up
task_queue_logs_not_found(queue, t) == Append(queue, t)

\* AgentRegistry.execute_task, lines 276-278: what the not-found branch does
\* to task_queue
task_queue_on_not_found(queue, t) == queue

\* a log that holds the latest dispatch only
task_queue_keeps_latest(queue, t) == <<t>>

\* AgentRegistry.execute_task, line 282
task_queue_on_return(queue, t) == Append(queue, t)

\* AgentRegistry.get_agent_status (lines 285-289); None is the empty set here
get_agent_status(ags, agent_id) ==
    IF ~registered(ags, agent_id) THEN {} ELSE {get_status(ags[agent_id])}

\* AgentRegistry.get_all_agents_status (lines 291-294)
get_all_agents_status(ags) == [id \in DOMAIN ags |-> get_status(ags[id])]

\* AgentRegistry.shutdown_all (lines 296-300)
shutdown_all(ags) == [id \in DOMAIN ags |-> shutdown(ags[id])]

---------------------------------------------------------------------------
\* what `last` records: the operation, its string argument, the agent and the
\* task it was about, what it returned and the message it was given
Did(op, arg, id, task, ret, error, result, msg) ==
    [op |-> op, arg |-> arg, id |-> id, task |-> task, ret |-> ret,
     error |-> error, result |-> result, msg |-> msg]

\* AgentRegistry.__init__ (lines 234-238)
Init ==
    /\ agents = <<>>
    /\ tasks = <<>>
    /\ task_queue = <<>>
    /\ known_at_dispatch = <<>>
    /\ running = <<>>
    /\ msg_count = 0
    /\ last = Did("init", "", EmptyId, 0, "", "", NoneValue, NoMessage)
    /\ report = {}

\* ids a caller may name: the registered ones and the empty default
NameableIds == DOMAIN agents \cup {EmptyId}

\* no activation of execute_task is in progress
Idle == running = <<>>

\* AgentRegistry.create_agent (lines 245-261); suffix is the uuid4()[:8] drawn
\* at line 247
CreateAgent(agent_type, suffix) ==
    /\ IF valid_agent_type(agent_type)
       THEN /\ agents' = register_agent(agents, BaseAgent_init(<<agent_type, suffix>>, agent_type))
            /\ last' = Did("create_agent", agent_type, <<agent_type, suffix>>, 0, "agent", "", NoneValue, NoMessage)
       ELSE /\ UNCHANGED agents
            /\ last' = Did("create_agent", agent_type, EmptyId, 0, "raise", "ValueError", NoneValue, NoMessage)
    /\ UNCHANGED <<tasks, task_queue, known_at_dispatch, running, msg_count>>
    /\ report' = {}

\* Task(...) built by a caller (as lines 317-339)
NewTask(agent_id, action, parameters) ==
    /\ Len(tasks) < MaxTasks
    /\ tasks' = Append(tasks, Task(agent_id, action, parameters))
    /\ last' = Did("Task", "", EmptyId, Len(tasks) + 1, "task", "", NoneValue, NoMessage)
    /\ UNCHANGED <<agents, task_queue, known_at_dispatch, running, msg_count>>
    /\ report' = {}

\* agent.receive_message(Message(...)) called on the agent registered as id
ReceiveMessage(id, receiver, prio) ==
    /\ msg_count < MaxMsgs
    /\ LET m == Message(msg_count + 1, receiver, prio) IN
       /\ agents' = [agents EXCEPT ![id] = receive_message(@, m)]
       /\ last' = Did("receive_message", "", id, 0, "None", "", NoneValue, m)
    /\ msg_count' = msg_count + 1
    /\ UNCHANGED <<tasks, task_queue, known_at_dispatch, running>>
    /\ report' = {}

\* registry.send_message(Message(...))
SendMessage(receiver, prio) ==
    /\ msg_count < MaxMsgs
    /\ LET m == Message(msg_count + 1, receiver, prio)
           r == send_message(agents, m)
       IN  /\ agents' = r.agents
           /\ last' = Did("send_message", "", receiver, 0, r.ret, "", NoneValue, m)
    /\ msg_count' = msg_count + 1
    /\ UNCHANGED <<tasks, task_queue, known_at_dispatch, running>>
    /\ report' = {}

\* an activation of execute_task: who was called, on which agent and task,
\* and (history) whether the task's agent_id was registered and the task's
\* status when it was called
Activation(via, id, t) ==
    [via |-> via, id |-> id, task |-> t,
     found |-> registered(agents, tasks[t].agent_id), prior |-> tasks[t].status]

\* AgentRegistry.execute_task (lines 274-281), to its return of line 278 or
\* to the await inside agent.execute_task
RegistryCall(t) ==
    IF ~registered(agents, tasks[t].agent_id)
    THEN /\ task_queue' = task_queue_on_not_found(task_queue, t)
         /\ known_at_dispatch' =
               IF task_queue' = task_queue THEN known_at_dispatch
               ELSE Append(known_at_dispatch, FALSE)
         /\ last' = Did("Registry.execute_task", "", EmptyId, t, "failed", "Agent not found", NoneValue, NoMessage)
         /\ UNCHANGED <<agents, tasks, running, msg_count>>
         /\ report' = {}
    ELSE /\ tasks' = [tasks EXCEPT ![t] = execute_task_enter(@)]
         /\ running' = Append(running, Activation("Registry.execute_task", tasks[t].agent_id, t))
         /\ last' = Did("await", "", tasks[t].agent_id, t, "", "", NoneValue, NoMessage)
         /\ UNCHANGED <<agents, task_queue, known_at_dispatch, msg_count>>
         /\ report' = {}

\* registry.execute_task(task) while the log and the agent's history are
\* within the bound
RegistryExecuteTask(t) ==
    /\ registered(agents, tasks[t].agent_id) =>
          /\ Len(task_queue) < MaxCalls
          /\ Len(agents[tasks[t].agent_id].task_history) < MaxCalls
    /\ RegistryCall(t)

\* agent.execute_task(task) called on the agent registered as id (line 108),
\* to the await
AgentExecuteTask(id, t) ==
    /\ Len(agents[id].task_history) < MaxCalls
    /\ tasks' = [tasks EXCEPT ![t] = execute_task_enter(@)]
    /\ running' = Append(running, Activation("BaseAgent.execute_task", id, t))
    /\ last' = Did("await", "", id, t, "", "", NoneValue, NoMessage)
    /\ UNCHANGED <<agents, task_queue, known_at_dispatch, msg_count>>
    /\ report' = {}

\* the handler finishes and activation i runs to its return: lines 113-121,
\* and for a call through the registry lines 282-283
Resume(i) ==
    LET c == running[i]
        h == perform_action(agents[c.id], tasks[c.task].action, tasks[c.task].parameters)
        r == execute_task_resume(agents[c.id], tasks[c.task], c.task, h)
    IN  /\ agents' = [agents EXCEPT ![c.id] = r.self]
        /\ tasks' = [tasks EXCEPT ![c.task] = r.task]
        /\ IF c.via = "Registry.execute_task"
           THEN /\ task_queue' = task_queue_on_return(task_queue, c.task)
                /\ known_at_dispatch' = Append(known_at_dispatch, c.found)
           ELSE UNCHANGED <<task_queue, known_at_dispatch>>
        /\ running' = SubSeq(running, 1, i - 1) \o SubSeq(running, i + 1, Len(running))
        /\ last' = Did(c.via, "", c.id, c.task, r.status, r.error, r.result, NoMessage)
        /\ UNCHANGED <<msg_count>>
        /\ report' = {}

\* AgentRegistry.shutdown_all (lines 296-300)
ShutdownAll ==
    /\ agents' = shutdown_all(agents)
    /\ last' = Did("shutdown_all", "", EmptyId, 0, "None", "", NoneValue, NoMessage)
    /\ UNCHANGED <<tasks, task_queue, known_at_dispatch, running, msg_count>>
    /\ report' = {}

\* agent.get_status() on the agent registered as id (lines 128-137)
GetStatus(id) ==
    /\ report' = {get_status(agents[id])}
    /\ last' = Did("get_status", "", id, 0, "dict", "", NoneValue, NoMessage)
    /\ UNCHANGED <<agents, tasks, task_queue, known_at_dispatch, running, msg_count>>

\* registry.get_agent_status(agent_id) (lines 285-289)
GetAgentStatus(agent_id) ==
    /\ report' = get_agent_status(agents, agent_id)
    /\ last' = Did("get_agent_status", "", agent_id, 0,
                   IF get_agent_status(agents, agent_id) = {} THEN "None" ELSE "dict",
                   "", NoneValue, NoMessage)
    /\ UNCHANGED <<agents, tasks, task_queue, known_at_dispatch, running, msg_count>>

\* registry.get_all_agents_status() (lines 291-294); the dict is held as the
\* set of its values, each of which carries its key as agent_id
GetAllAgentsStatus ==
    /\ report' = {get_all_agents_status(agents)[id] : id \in DOMAIN agents}
    /\ last' = Did("get_all_agents_status", "", EmptyId, 0, "dict", "", NoneValue, NoMessage)
    /\ UNCHANGED <<agents, tasks, task_queue, known_at_dispatch, running, msg_count>>

\* the (action, parameters) pairs given to tasks: for each agent type one of
\* them is a known action on a dict, one is not in its vocabulary
TaskInputs ==
    {<<"gather_data", "dict">>, <<"gather_data", "None">>, <<"implement_plan", "dict">>}

\* The operations on agents and the registry that start a call; an operation
\* starts only when no activation is in progress
\* create_agent draws an id no agent carries yet (uuid4 values taken as unique)
StartCreate ==
    \E k \in CreateArgs, s \in Suffixes :
        Idle /\ ~registered(agents, <<k, s>>) /\ CreateAgent(k, s)
StartTask == \E id \in NameableIds, in \in TaskInputs : Idle /\ NewTask(id, in[1], in[2])
StartReceive ==
    \E id \in DOMAIN agents, r \in NameableIds, p \in Priorities :
        Idle /\ ReceiveMessage(id, r, p)
StartSend == \E r \in NameableIds, p \in Priorities : Idle /\ SendMessage(r, p)
StartDispatch == \E t \in DOMAIN tasks : Idle /\ RegistryExecuteTask(t)
StartExecute ==
    \E id \in DOMAIN agents, t \in DOMAIN tasks : Idle /\ AgentExecuteTask(id, t)
Finish == \E i \in DOMAIN running : Resume(i)
StartShutdown == Idle /\ ShutdownAll

StartStatus ==
    \/ \E id \in DOMAIN agents : Idle /\ GetStatus(id)
    \/ \E id \in NameableIds : Idle /\ GetAgentStatus(id)
    \/ Idle /\ GetAllAgentsStatus

\* a first message routed to an agent with default priority
StartSendFirst ==
    \E r \in DOMAIN agents :
        Idle /\ agents[r].message_queue = <<>> /\ SendMessage(r, 1)

\* the whole program
Next ==
    \/ StartCreate
    \/ StartTask
    \/ StartReceive
    \/ StartSend
    \/ StartDispatch
    \/ StartExecute
    \/ Finish
    \/ StartShutdown
    \/ StartStatus

Spec == Init /\ [][Next]_vars

\* creating agents and executing tasks, on agents whose queue may hold a message
NextTasks ==
    \/ StartCreate
    \/ StartTask
    \/ StartSendFirst
    \/ StartDispatch
    \/ StartExecute
    \/ Finish

SpecTasks == Init /\ [][NextTasks]_vars

\* creating agents and passing messages
NextMessages ==
    \/ StartCreate
    \/ StartReceive
    \/ StartSend
    \/ StartShutdown

SpecMessages == Init /\ [][NextMessages]_vars

\* main() (lines 303-353): the four agents in the order of lines 309-312
MainOrder == <<"researcher", "analyzer", "planner", "executor">>

\* the actions of the four tasks of lines 317-339, each with a dict of parameters
MainActions == <<"gather_data", "analyze_data", "create_strategy", "implement_plan">>

\* one of lines 309-312: the next agent is created
MainCreate ==
    \E s \in Suffixes :
        /\ Idle
        /\ tasks = <<>>
        /\ Cardinality(DOMAIN agents) < Len(MainOrder)
        /\ CreateAgent(MainOrder[Cardinality(DOMAIN agents) + 1], s)

\* lines 317-339: the task list, one task for each of the agents
MainTasks ==
    /\ Idle
    /\ tasks = <<>>
    /\ Cardinality(DOMAIN agents) = Len(MainOrder)
    /\ tasks' = [i \in DOMAIN MainOrder |->
                    Task(CHOOSE id \in DOMAIN agents : id[1] = MainOrder[i],
                         MainActions[i], "dict")]
    /\ last' = Did("Task", "", EmptyId, Len(MainOrder), "task", "", NoneValue, NoMessage)
    /\ UNCHANGED <<agents, task_queue, known_at_dispatch, running, msg_count>>
    /\ report' = {}

\* lines 342-344: a task not yet dispatched is dispatched; the loop's order is
\* left open
MainDispatch ==
    \E t \in DOMAIN tasks :
        Idle /\ tasks[t].status = "pending" /\ RegistryCall(t)

\* main's workflow, with messages, status queries (line 348) and shutdown_all
\* (line 353) at any point of it
NextMain ==
    \/ MainCreate
    \/ MainTasks
    \/ MainDispatch
    \/ Finish
    \/ StartSendFirst
    \/ StartStatus
    \/ StartShutdown

SpecMain == Init /\ [][NextMain]_vars

\* Callers that schedule registry.execute_task coroutines together (as
\* asyncio.gather does): a coroutine that stands at the await of line 113 lets
\* the others run.  The four handlers of this file return without suspending,
\* a handler that awaits suspends there; the schedules below are all those
\* the await admits.

\* the tasks given to the coroutines, all for one agent
GatherTasks ==
    \E id \in DOMAIN agents, ins \in [1..MaxGather -> TaskInputs] :
        /\ Idle
        /\ tasks = <<>>
        /\ tasks' = [i \in 1..MaxGather |-> Task(id, ins[i][1], ins[i][2])]
        /\ last' = Did("Task", "", EmptyId, MaxGather, "task", "", NoneValue, NoMessage)
        /\ report' = {}
        /\ UNCHANGED <<agents, task_queue, known_at_dispatch, running, msg_count>>

\* one of the coroutines starts and runs to its await (or to its return of
\* line 278), whether or not others stand at theirs
GatherDispatch ==
    \E t \in DOMAIN tasks : tasks[t].status = "pending" /\ RegistryCall(t)

NextGather ==
    \/ StartCreate
    \/ GatherTasks
    \/ GatherDispatch
    \/ Finish

SpecGather == Init /\ [][NextGather]_vars

\* the event loop runs every coroutine that is ready, and no handler loops or
\* waits: an activation that stands at the await is resumed
FairGather == SpecGather /\ WF_vars(Finish)

\* uuid4()[:8] as line 247 draws it: 8 hex digits, which two draws may share
Uuids == {"0a1b2c3d", "4e5f6a7b"}

\* create_agent with whatever the draw of line 247 gives
CreateAny == \E k \in CreateArgs, s \in Uuids : Idle /\ CreateAgent(k, s)

\* creating agents, on a registry whose agents may hold a message and may
\* have been shut down
NextCreate ==
    \/ CreateAny
    \/ StartSendFirst
    \/ StartShutdown

SpecCreate == Init /\ [][NextCreate]_vars

\* the (action, parameters) pairs of tasks given where an executor works:
\* its own action on a dict and on a value that is no dict, and an action it
\* does not know
PlanInputs ==
    {<<"implement_plan", "dict">>, <<"implement_plan", "None">>, <<"gather_data", "dict">>}

\* Task(...) for a registered agent
PlanTask ==
    \E id \in DOMAIN agents, in \in PlanInputs :
        /\ Idle
        /\ Len(tasks) < MaxPlans
        /\ tasks' = Append(tasks, Task(id, in[1], in[2]))
        /\ last' = Did("Task", "", EmptyId, Len(tasks) + 1, "task", "", NoneValue, NoMessage)
        /\ report' = {}
        /\ UNCHANGED <<agents, task_queue, known_at_dispatch, running, msg_count>>

\* executors and other agents at work: tasks, messages and shutdown_all
NextPlans ==
    \/ StartCreate
    \/ PlanTask
    \/ StartSendFirst
    \/ StartDispatch
    \/ Finish
    \/ StartShutdown

SpecPlans == Init /\ [][NextPlans]_vars

---------------------------------------------------------------------------
\* Steps, as the properties below recognise them

Terminal == {"completed", "failed"}

\* this step is the return of activation c
ReturnsFrom(c) ==
    /\ running # <<>>
    /\ running[1] = c
    /\ running' = <<>>

\* this step starts registry.execute_task(task t)
Dispatches(t) ==
    /\ Idle
    /\ last'.task = t
    /\ \/ last'.op = "Registry.execute_task"
       \/ /\ last'.op = "await"
          /\ running' # <<>>
          /\ running'[1].via = "Registry.execute_task"

\* this step starts an execute_task that reaches an agent
Enters == Idle /\ running' # <<>>

\* what the handler of the agent of activation c does with c's task
Handled(c) ==
    perform_action(agents[c.id], tasks[c.task].action, tasks[c.task].parameters)

---------------------------------------------------------------------------
\* C1: a task's status only moves forward, pending -> running -> completed or
\* failed; a task that is completed or failed is never pending or running
\* again, also when the same task object is executed more than once.
C1_StatusOnlyForward ==
    [][\A t \in DOMAIN tasks :
          \/ tasks'[t].status = tasks[t].status
          \/ tasks[t].status = "pending" /\ tasks'[t].status = "running"
          \/ tasks[t].status = "running" /\ tasks'[t].status \in Terminal]_vars

\* C2: in every state a task has a result exactly when its status is completed.
C2_ResultIffCompleted ==
    \A t \in DOMAIN tasks :
        (tasks[t].result # NoneValue) <=> (tasks[t].status = "completed")

\* C3: when the handler raises while an agent executes a task that was pending,
\* execute_task returns {status: failed, error: ...} instead of raising, the
\* task ends failed with no result, and the agent is as it was before the
\* call: neither the entry into the call nor its return changes the agent's
\* message_queue, knowledge_base, task_history or is_active.
C3_HandlerFailureContained ==
    [][/\ Enters => agents' = agents
       /\ \A c \in {running[i] : i \in DOMAIN running} :
             (ReturnsFrom(c) /\ c.prior = "pending" /\ Handled(c).raised) =>
                /\ last'.op = c.via
                /\ last'.ret = "failed"
                /\ last'.error # ""
                /\ tasks'[c.task].status = "failed"
                /\ tasks'[c.task].result = NoneValue
                /\ agents'[c.id].message_queue = agents[c.id].message_queue
                /\ agents'[c.id].knowledge_base = agents[c.id].knowledge_base
                /\ agents'[c.id].task_history = agents[c.id].task_history
                /\ agents'[c.id].is_active = agents[c.id].is_active]_vars

\* C3 happens: an execute_task of a pending task has returned failed on an
\* agent whose queue holds a message
C3_Witness ==
    /\ last.op \in {"Registry.execute_task", "BaseAgent.execute_task"}
    /\ last.ret = "failed"
    /\ last.error = "AttributeError"
    /\ tasks[last.task].status = "failed"
    /\ tasks[last.task].result = NoneValue
    /\ agents[last.id].message_queue # <<>>

\* C4: registry.execute_task on a task whose agent_id is no key of agents
\* returns the failed outcome 'Agent not found', leaves every task as it was
\* (a pending task stays pending), adds nothing to task_queue and changes no
\* agent.
C4_DispatchUnknownAgent ==
    [][\A t \in DOMAIN tasks :
          (Dispatches(t) /\ ~(tasks[t].agent_id \in DOMAIN agents)) =>
             /\ last'.op = "Registry.execute_task"
             /\ last'.ret = "failed"
             /\ last'.error = "Agent not found"
             /\ tasks' = tasks
             /\ task_queue' = task_queue
             /\ agents' = agents
             /\ running' = running]_vars

\* C4 happens: a dispatch to an unknown agent returned, the task is pending
\* and an agent is registered
C4_Witness ==
    /\ last.op = "Registry.execute_task"
    /\ last.error = "Agent not found"
    /\ tasks[last.task].status = "pending"
    /\ task_queue = <<>>
    /\ DOMAIN agents # {}

\* C5: agent.execute_task(task) with task.agent_id different from the agent's
\* id leaves the agent's task_history and knowledge_base as they were.
C5_MismatchedExecuteNoMutation ==
    [][\A c \in {running[i] : i \in DOMAIN running} :
          (ReturnsFrom(c) /\ tasks[c.task].agent_id # agents[c.id].agent_id) =>
             /\ agents'[c.id].task_history = agents[c.id].task_history
             /\ agents'[c.id].knowledge_base = agents[c.id].knowledge_base]_vars

\* C6: receive_message(m) appends m to the agent's queue exactly when
\* m.receiver_id is the agent's id (the queue grows by one), leaves the queue
\* as it was otherwise, and raises nothing either way.
C6_ReceiveIffAddressed ==
    [][last'.op = "receive_message" =>
          LET m == last'.msg
              before == agents[last'.id].message_queue
              after == agents'[last'.id].message_queue
          IN  /\ last'.ret = "None"
              /\ last'.error = ""
              /\ m.receiver_id = agents[last'.id].agent_id =>
                    after = Append(before, m) /\ Len(after) = Len(before) + 1
              /\ m.receiver_id # agents[last'.id].agent_id => after = before]_vars

\* C6 happens: an agent that holds an accepted message has just dropped one
\* addressed to someone else
C6_Witness ==
    /\ last.op = "receive_message"
    /\ last.msg.receiver_id # last.id
    /\ Len(agents[last.id].message_queue) = 1

\* C7: registry.send_message of a message whose receiver_id is not registered
\* returns False, raises nothing, and leaves every agent's queue as it was.
C7_RouteUnknownReceiver ==
    [][(last'.op = "send_message" /\ ~(last'.msg.receiver_id \in DOMAIN agents)) =>
          /\ last'.ret = "False"
          /\ last'.error = ""
          /\ DOMAIN agents' = DOMAIN agents
          /\ \A id \in DOMAIN agents :
                agents'[id].message_queue = agents[id].message_queue]_vars

\* C7 happens: a send to an unknown receiver returned False while an agent
\* holds a message
C7_Witness ==
    /\ last.op = "send_message"
    /\ last.ret = "False"
    /\ \E id \in DOMAIN agents : agents[id].message_queue # <<>>

\* C8: executing a task whose action is not in the agent type's vocabulary is
\* a success: the outcome carries {action, status: unknown_action}, the task
\* ends completed with that result, and the task is appended to the agent's
\* task_history.
C8_UnknownActionIsSoft ==
    [][\A c \in {running[i] : i \in DOMAIN running} :
          (ReturnsFrom(c) /\
           ~(tasks[c.task].action \in Vocabulary(agents[c.id].agent_type))) =>
             /\ last'.ret = "success"
             /\ last'.result.status = "unknown_action"
             /\ last'.result.action = tasks[c.task].action
             /\ tasks'[c.task].status = "completed"
             /\ tasks'[c.task].result = last'.result
             /\ agents'[c.id].task_history =
                   Append(agents[c.id].task_history, c.task)]_vars

\* C8 happens: an execution of an action outside the vocabulary has returned
C8_Witness ==
    /\ last.ret = "success"
    /\ last.result.status = "unknown_action"
    /\ tasks[last.task].status = "completed"
    /\ ~(tasks[last.task].action \in Vocabulary(agents[last.id].agent_type))

\* C9: create_agent with a type outside the four raises ValueError and leaves
\* the registry as it was: no agent added, removed, replaced or changed.
C9_InvalidKindRejected ==
    [][(last'.op = "create_agent" /\ ~(last'.arg \in AgentTypes)) =>
          /\ last'.ret = "raise"
          /\ last'.error = "ValueError"
          /\ agents' = agents]_vars

\* C9 happens: create_agent has raised in a registry holding an agent with a
\* task in its history
C9_Witness ==
    /\ last.op = "create_agent"
    /\ last.ret = "raise"
    /\ \E id \in DOMAIN agents : agents[id].task_history # <<>>

\* C10: every task in task_queue has an agent_id that was a key of agents when
\* the task was dispatched.
C10_LoggedTasksHadAgent ==
    /\ Len(known_at_dispatch) = Len(task_queue)
    /\ \A i \in DOMAIN task_queue : known_at_dispatch[i]

\* C10 happens: two dispatches are in the log
C10_Witness == Len(task_queue) = 2

MainDone ==
    /\ Idle
    /\ Len(tasks) = Len(MainOrder)
    /\ \A t \in DOMAIN tasks : tasks[t].status # "pending"

\* C12: with one agent of each type and one well-formed task for each, in
\* whatever order the tasks are dispatched, all four end completed with a
\* result, get_all_agents_status reports task_history_count 1 for each of the
\* four agents, and after shutdown_all every agent reports is_active false.
C12_MainWorkflow ==
    /\ MainDone =>
          /\ \A t \in DOMAIN tasks :
                /\ tasks[t].status = "completed"
                /\ tasks[t].result # NoneValue
                /\ tasks[t].result.action = MainActions[t]
          /\ Len(task_queue) = Len(MainOrder)
          /\ last.op = "get_all_agents_status" =>
                /\ Cardinality(report) = Len(MainOrder)
                /\ \A r \in report : r.task_history_count = 1
    /\ last.op = "shutdown_all" =>
          \A id \in DOMAIN agents : ~get_status(agents[id]).is_active

\* C12 happens: the four tasks were dispatched in another order than main's,
\* the agents were shut down and the statuses were asked for
C12_Witness ==
    /\ MainDone
    /\ task_queue = <<3, 1, 4, 2>>
    /\ last.op = "get_all_agents_status"
    /\ Cardinality(report) = Len(MainOrder)
    /\ \A id \in DOMAIN agents : ~agents[id].is_active

\* C13: shutdown_all sets is_active false on every registered agent and
\* removes none: the registry has the same ids afterwards, and each agent's
\* message queue, knowledge base and task history are what they were.
C13_ShutdownAllKeepsAgents ==
    [][last'.op = "shutdown_all" =>
          /\ DOMAIN agents' = DOMAIN agents
          /\ \A id \in DOMAIN agents :
                /\ ~agents'[id].is_active
                /\ agents'[id] = [agents[id] EXCEPT !.is_active = FALSE]
                /\ agents'[id].message_queue = agents[id].message_queue
                /\ agents'[id].knowledge_base = agents[id].knowledge_base
                /\ agents'[id].task_history = agents[id].task_history
          /\ UNCHANGED <<tasks, task_queue>>]_vars

\* C13 happens: shutdown_all ran over four agents, one of them with a queued
\* message and a task in its history
C13_Witness ==
    /\ last.op = "shutdown_all"
    /\ Cardinality(DOMAIN agents) = Len(MainOrder)
    /\ \E id \in DOMAIN agents :
          /\ agents[id].message_queue # <<>>
          /\ agents[id].task_history # <<>>
          /\ ~agents[id].is_active

StatusOps == {"get_status", "get_agent_status", "get_all_agents_status"}

\* C14: get_status, get_agent_status and get_all_agents_status change nothing;
\* each status they return gives the is_active flag, the length of the message
\* queue, the length of the task history and the size of the knowledge base of
\* its agent as they are; get_agent_status returns None for an id that is not
\* registered, and get_all_agents_status has one status for each agent.
C14_StatusReadOnlyAndExact ==
    [][last'.op \in StatusOps =>
          /\ UNCHANGED <<agents, tasks, task_queue, known_at_dispatch, running, msg_count>>
          /\ \A r \in report' :
                /\ r.agent_id \in DOMAIN agents
                /\ r.agent_type = agents[r.agent_id].agent_type
                /\ r.is_active = agents[r.agent_id].is_active
                /\ r.message_queue_size = Len(agents[r.agent_id].message_queue)
                /\ r.task_history_count = Len(agents[r.agent_id].task_history)
                /\ r.knowledge_base_size = Cardinality(agents[r.agent_id].knowledge_base)
          /\ last'.op = "get_status" => {r.agent_id : r \in report'} = {last'.id}
          /\ last'.op = "get_agent_status" =>
                IF last'.id \in DOMAIN agents
                THEN last'.ret = "dict" /\ {r.agent_id : r \in report'} = {last'.id}
                ELSE last'.ret = "None" /\ report' = {}
          /\ last'.op = "get_all_agents_status" =>
                /\ {r.agent_id : r \in report'} = DOMAIN agents
                /\ Cardinality(report') = Cardinality(DOMAIN agents)]_vars

\* C14 happens: the status of an agent that was shut down with a message
\* queued and a task in its history, while another agent has neither
C14_Witness ==
    /\ last.op = "get_agent_status"
    /\ last.ret = "dict"
    /\ \E r \in report :
          /\ ~r.is_active
          /\ r.message_queue_size = 1
          /\ r.task_history_count = 1
    /\ \E id \in DOMAIN agents :
          agents[id].message_queue = <<>> /\ agents[id].task_history = <<>>

\* C15: an agent that was shut down accepts no further work: an execute_task
\* addressed to it returns a failed outcome at once, the handler is not run,
\* the task keeps its status and the agent's task_history gets no entry.
C15_InactiveAgentRejectsWork ==
    [][\A t \in DOMAIN tasks :
          (/\ Idle
           /\ last'.task = t
           /\ last'.op \in {"await", "Registry.execute_task", "BaseAgent.execute_task"}
           /\ registered(agents, last'.id)
           /\ ~agents[last'.id].is_active)
          => /\ last'.ret = "failed"
             /\ running' = <<>>
             /\ tasks'[t].status = tasks[t].status
             /\ agents'[last'.id].task_history = agents[last'.id].task_history]_vars

\* the tasks in an agent's task_history
Recorded(self) == {self.task_history[i] : i \in DOMAIN self.task_history}

\* C16 as stated: when execute_task returns for a task, that task is in the
\* agent's task_history whether the outcome is success or failed.
C16_HistoryRecordsEveryTerminalTask ==
    [][\A c \in {running[i] : i \in DOMAIN running} :
          ReturnsFrom(c) => c.task \in Recorded(agents'[c.id])]_vars

\* C16, amended: task_history records the tasks the agent has completed: an
\* execute_task that returns success appends its task at the end of the
\* agent's task_history, one that returns failed leaves task_history as it
\* was.
C16_HistoryRecordsCompletedTasks ==
    [][\A c \in {running[i] : i \in DOMAIN running} :
          ReturnsFrom(c) =>
             /\ last'.ret \in {"success", "failed"}
             /\ last'.ret = "success" =>
                   /\ tasks'[c.task].status = "completed"
                   /\ agents'[c.id].task_history = Append(agents[c.id].task_history, c.task)
             /\ last'.ret = "failed" =>
                   /\ tasks'[c.task].status = "failed"
                   /\ agents'[c.id].task_history = agents[c.id].task_history]_vars

\* C16 happens: an agent with a completed task in its history was handed
\* a task directly, the task failed and is not in the history
C16_Witness ==
    /\ last.op = "BaseAgent.execute_task"
    /\ last.ret = "failed"
    /\ tasks[last.task].status = "failed"
    /\ last.task \notin Recorded(agents[last.id])
    /\ \E id \in DOMAIN agents : agents[id].task_history # <<>>

\* C17: when tasks are dispatched together to the same agent and their
\* executions interleave at the await of the handler, no entry is lost: the
\* agent's task_history has one entry for each task that completed and
\* task_queue one for each that returned, so two tasks that both succeed add
\* exactly 2 to each, in whatever order they resume.
C17_NoHistoryEntryLost ==
    /\ Len(task_queue) = Cardinality({t \in DOMAIN tasks : tasks[t].status \in Terminal})
    /\ {task_queue[i] : i \in DOMAIN task_queue} = {t \in DOMAIN tasks : tasks[t].status \in Terminal}
    /\ \A id \in DOMAIN agents :
          LET done == {t \in DOMAIN tasks :
                          tasks[t].agent_id = id /\ tasks[t].status = "completed"}
          IN  /\ Len(agents[id].task_history) = Cardinality(done)
              /\ Recorded(agents[id]) = done

\* C17 happens: the tasks stood at the await together, the last of them
\* resumed first, and all completed
C17_Witness ==
    /\ Idle
    /\ \A t \in DOMAIN tasks : tasks[t].status = "completed"
    /\ Len(task_queue) = MaxGather
    /\ task_queue[1] = MaxGather
    /\ agents[tasks[1].agent_id].task_history = task_queue

\* this step is the return of activation c, whatever else is in progress
Returned(c) ==
    /\ Len(running') < Len(running)
    /\ last'.op = c.via
    /\ last'.task = c.task

\* C18: every registry.execute_task on a registered agent returns one outcome,
\* success or failed; when it returns the task is completed exactly if the
\* outcome is success and failed exactly if it is failed, and the task is
\* appended to task_queue; a task that was set running does not stay running:
\* it reaches a terminal status and task_queue; no task is logged twice for
\* one dispatch.
C18_DispatchReturnsOneOutcome ==
    /\ [][\A c \in {running[i] : i \in DOMAIN running} :
             Returned(c) =>
                /\ last'.ret \in {"success", "failed"}
                /\ last'.ret = "success" <=> tasks'[c.task].status = "completed"
                /\ last'.ret = "failed" <=> tasks'[c.task].status = "failed"
                /\ task_queue' = Append(task_queue, c.task)]_vars
    /\ [](\A i, j \in DOMAIN task_queue : task_queue[i] = task_queue[j] => i = j)
    /\ \A t \in 1..MaxGather :
          (IF t \in DOMAIN tasks THEN tasks[t].status = "running" ELSE FALSE)
             ~> (IF t \in DOMAIN tasks
                 THEN /\ tasks[t].status \in Terminal
                      /\ \E i \in DOMAIN task_queue : task_queue[i] = t
                 ELSE FALSE)

\* C18 happens: dispatches have returned, one with success and one with failed
C18_Witness ==
    /\ Idle
    /\ last.op = "Registry.execute_task"
    /\ last.ret = "failed"
    /\ tasks[last.task].status = "failed"
    /\ \E t \in DOMAIN tasks : tasks[t].status = "completed"
    /\ Len(task_queue) = Len(tasks)

\* C19: a message queue is first in, first out whatever the priorities: a
\* send_message to a registered receiver returns True and puts the message at
\* the tail of that agent's queue and of no other; no step changes a queue
\* otherwise than by adding one message at its tail; so every queue holds
\* messages addressed to its agent in the order they arrived, none twice.
C19_QueueIsFifo ==
    /\ [][/\ \A id \in DOMAIN agents :
                /\ id \in DOMAIN agents'
                /\ \/ agents'[id].message_queue = agents[id].message_queue
                   \/ /\ last'.op \in {"send_message", "receive_message"}
                      /\ agents'[id].message_queue =
                            Append(agents[id].message_queue, last'.msg)
          /\ (last'.op = "send_message" /\ registered(agents, last'.msg.receiver_id)) =>
                /\ last'.ret = "True"
                /\ agents'[last'.msg.receiver_id].message_queue =
                      Append(agents[last'.msg.receiver_id].message_queue, last'.msg)
                /\ \A id \in DOMAIN agents \ {last'.msg.receiver_id} :
                      agents'[id] = agents[id]]_vars
    /\ [](\A id \in DOMAIN agents :
             LET q == agents[id].message_queue
             IN  \A i, j \in DOMAIN q :
                    /\ q[i].receiver_id = id
                    /\ i < j => q[i].message_id < q[j].message_id)

\* C19 happens: a message of priority 2 was routed to an agent whose queue
\* holds a message of priority 1, and stands behind it
C19_Witness ==
    /\ last.op = "send_message"
    /\ last.ret = "True"
    /\ last.msg.priority = 2
    /\ LET q == agents[last.msg.receiver_id].message_queue
       IN  /\ Len(q) >= 2
           /\ q[1].priority = 1
           /\ q[Len(q)] = last.msg

\* C20: create_agent with a valid type registers the new agent under an id no
\* agent had: the number of agents grows by exactly one, the new agent is
\* active with empty message queue, knowledge base and task history, and
\* every agent registered before is still registered under its id, unchanged.
C20_CreateAddsOneAgent ==
    [][(last'.op = "create_agent" /\ last'.ret = "agent") =>
          /\ last'.id \notin DOMAIN agents
          /\ Cardinality(DOMAIN agents') = Cardinality(DOMAIN agents) + 1
          /\ agents'[last'.id] = BaseAgent_init(last'.id, last'.arg)
          /\ \A id \in DOMAIN agents :
                id \in DOMAIN agents' /\ agents'[id] = agents[id]]_vars

\* the executors registered
Executors == {id \in DOMAIN agents : agents[id].agent_type = "executor"}

\* the implement_plan executions in an agent's task_history
PlansDone(self) ==
    {i \in DOMAIN self.task_history : tasks[self.task_history[i]].action = "implement_plan"}

\* C21: an executor's execution_count never decreases and is its own: it
\* grows by exactly one when that executor performs implement_plan, the
\* execution_count in the result of that execution is the number of
\* implement_plan executions the executor has performed so far, and no other
\* step changes it: not an unknown action, an implement_plan that fails
\* before it is performed, a message, shutdown_all, or an execution on
\* another agent.
C21_ExecutionCountPerExecutor ==
    /\ [][\A id \in Executors :
             LET performs ==
                    \E c \in {running[i] : i \in DOMAIN running} :
                       /\ ReturnsFrom(c)
                       /\ c.id = id
                       /\ tasks[c.task].action = "implement_plan"
                       /\ last'.ret = "success"
             IN  /\ id \in DOMAIN agents'
                 /\ IF performs
                    THEN /\ agents'[id].execution_count = agents[id].execution_count + 1
                         /\ last'.result.execution_count = agents'[id].execution_count
                         /\ last'.result.execution_count = Cardinality(PlansDone(agents'[id]))
                    ELSE agents'[id].execution_count = agents[id].execution_count]_vars
    /\ [](\A id \in Executors :
             agents[id].execution_count = Cardinality(PlansDone(agents[id])))

\* C21 happens: an executor that holds a message and was shut down has
\* performed implement_plan for the second time, next to another agent
C21_Witness ==
    /\ last.op = "Registry.execute_task"
    /\ last.ret = "success"
    /\ last.id \in Executors
    /\ last.result.execution_count = 2
    /\ agents[last.id].execution_count = 2
    /\ agents[last.id].message_queue # <<>>
    /\ ~agents[last.id].is_active
    /\ DOMAIN agents # Executors

====
